---- MODULE Spec2Model ----
(***************************************************************************)
(* Model of the 0x0 alert service: src/src/analyzer.py (class Analyzer)    *)
(* and src/src/main.py (FastAPI shell, startup task, daily scheduler).     *)
(*                                                                         *)
(* Python values are modelled as tagged records:                           *)
(*   None                 [t |-> "None"]                                   *)
(*   a list               [t |-> "list", items |-> <<...>>]                *)
(*   a dict               [t |-> "dict", d |-> [key |-> value]]            *)
(*   a float              [t |-> "float", n |-> num, d |-> den]  (exact    *)
(*                        rational in lowest terms, den > 0)               *)
(*   a str                [t |-> "str", s |-> <<characters>>]              *)
(* Time is counted in minutes (60 s = 1 minute).                           *)
(***************************************************************************)
EXTENDS Integers, Sequences, FiniteSets, TLC

VARIABLES
    env,        \* process environment: the os.getenv view
    analyzer,   \* module-level `analyzer` of main.py / `bot` of analyzer.py
    svc,        \* service shell: lifecycle position, pending /run requests
    runs,       \* one record per invocation of run_daily_analysis (its locals)
    queries,    \* number of _get_api_data calls issued so far
    posts,      \* number of requests.post calls to the Telegram endpoint
    outbox,     \* messages handed to _send_telegram_message, in order
    team_stats, \* estimator harness: the argument of _calculate_real_stats
    result,     \* estimator harness: its return value
    now,        \* scheduler harness: wall clock, minutes since day 0 00:00
    sched       \* scheduler harness: locals of daily_scheduler

vars == <<env, analyzer, svc, runs, queries, posts, outbox, team_stats, result, now, sched>>

----------------------------------------------------------------------------
(* Bounds of the model                                                     *)

MaxEnvLen == 3      \* longest LEAGUE_IDS string enumerated
MaxCount == 10      \* largest count in a team-statistics payload
MaxFixtures == 1    \* longest fixture list the data source returns
MaxRuns == 2        \* invocations of the pipeline the service starts
MaxDays == 3        \* days of wall-clock time the scheduler is followed for

----------------------------------------------------------------------------
(* Python values                                                           *)

None == [t |-> "None"]
List(s) == [t |-> "list", items |-> s]
Dict(f) == [t |-> "dict", d |-> f]
Str(s) == [t |-> "str", s |-> s]
Tuple(s) == [t |-> "tuple", items |-> s]
Num(v) == [t |-> "int", v |-> v]

\* Python truthiness (`if x:` / `not x`) of the values that occur here.
Truthy(v) ==
    CASE v.t = "None" -> FALSE
      [] v.t = "list" -> Len(v.items) > 0
      [] v.t = "dict" -> DOMAIN v.d # {}
      [] v.t = "str" -> v.s # <<>>
      [] OTHER -> TRUE

\* dict.get(key, default)
Get(dct, key, default) == IF key \in DOMAIN dct THEN dct[key] ELSE default

RECURSIVE Gcd(_, _)
Gcd(a, b) == IF b = 0 THEN a ELSE Gcd(b, a % b)

Abs(x) == IF x < 0 THEN -x ELSE x

\* The float with value n/d.
Float(n, d) ==
    LET g == Gcd(Abs(n), Abs(d))
    IN  [t |-> "float", n |-> n \div g, d |-> d \div g]

\* int / int (true division); the caller guards b # 0.
IntDiv(a, b) == Float(a, b)
\* float / int
FloatDivInt(x, b) == Float(x.n, x.d * b)
\* float * int
FloatMulInt(x, k) == Float(x.n * k, x.d)

----------------------------------------------------------------------------
(* Analyzer.__init__: configuration                                        *)

TOP_20_LEAGUES ==
    <<39, 140, 61, 78, 135, 94, 88, 71, 179, 144,
      141, 40, 262, 301, 235, 253, 556, 128, 569, 307>>

\* Characters a LEAGUE_IDS value is built from here.  "1" and "2" are decimal
\* digits; "S" stands for a superscript two, which str.isdigit() accepts and
\* int() rejects; "a" is a letter; " " is whitespace; "," the separator.
EnvChars == {"1", "2", ",", " ", "a", "S"}
DecimalChars == {"1", "2"}
DigitChars == DecimalChars \cup {"S"}

DigitValue(c) == IF c = "1" THEN 1 ELSE 2

RECURSIVE Split(_, _)
\* str.split(sep): always at least one token.
Split(s, sep) ==
    IF \E i \in 1..Len(s) : s[i] = sep
    THEN LET i == CHOOSE k \in 1..Len(s) :
                      s[k] = sep /\ \A j \in 1..(k - 1) : s[j] # sep
         IN  <<SubSeq(s, 1, i - 1)>> \o Split(SubSeq(s, i + 1, Len(s)), sep)
    ELSE <<s>>

RECURSIVE Strip(_)
\* str.strip()
Strip(s) ==
    IF s = <<>> THEN s
    ELSE IF Head(s) = " " THEN Strip(Tail(s))
    ELSE IF s[Len(s)] = " " THEN Strip(SubSeq(s, 1, Len(s) - 1))
    ELSE s

\* str.isdigit()
IsDigit(s) == Len(s) > 0 /\ \A i \in 1..Len(s) : s[i] \in DigitChars

\* int(s) raises ValueError unless s is a decimal literal.
IntRaises(s) == Len(s) = 0 \/ \E i \in 1..Len(s) : s[i] \notin DecimalChars

RECURSIVE IntOf(_)
IntOf(s) == IF Len(s) = 0 THEN 0 ELSE 10 * IntOf(SubSeq(s, 1, Len(s) - 1)) + DigitValue(s[Len(s)])

RECURSIVE SortedSeq(_)
\* sorted(list(set(xs))) for a set of integers
SortedSeq(S) ==
    IF S = {} THEN <<>>
    ELSE LET m == CHOOSE x \in S : \A y \in S : x <= y
         IN  <<m>> \o SortedSeq(S \ {m})

\* The tokens the list comprehension of __init__ keeps.
KeptTokens(tokens) == {i \in 1..Len(tokens) : IsDigit(Strip(tokens[i]))}

\* self.leagues as __init__ computes it from os.getenv("LEAGUE_IDS", "").
ParseLeagues(leagues_env) ==
    IF leagues_env # <<>>
    THEN LET tokens == Split(leagues_env, ",")
             kept == KeptTokens(tokens)
         IN  IF \E i \in kept : IntRaises(Strip(tokens[i]))
             THEN TOP_20_LEAGUES
             ELSE SortedSeq({IntOf(Strip(tokens[i])) : i \in kept})
    ELSE TOP_20_LEAGUES

\* os.getenv(name): None when the variable is unset.
Getenv(e, name) == e[name]
\* os.getenv("LEAGUE_IDS", ""): the default replaces an unset variable.
GetenvLeagueIds(e) == IF e.LEAGUE_IDS = None THEN <<>> ELSE e.LEAGUE_IDS.s

\* Analyzer(): never raises; every credential is taken as found.
NewAnalyzer(e) ==
    [t |-> "Analyzer",
     api_key |-> Getenv(e, "API_SPORTS_KEY"),
     telegram_token |-> Getenv(e, "TELEGRAM_BOT_TOKEN"),
     telegram_chat_id |-> Getenv(e, "TELEGRAM_CHAT_ID"),
     leagues |-> ParseLeagues(GetenvLeagueIds(e))]

----------------------------------------------------------------------------
(* Analyzer._calculate_real_stats                                          *)

StatKeys == {"played", "draws", "clean_sheet", "failed_to_score"}

\* (mutant) the trend without the division by 2
_calculate_real_stats_unhalved(stats) ==
    IF ~Truthy(stats) THEN <<Float(0, 1), Str(<<"N", "/", "A">>)>>
    ELSE LET played == Get(stats.d, "played", 0)
             draws == Get(stats.d, "draws", 0)
             clean_sheets == Get(stats.d, "clean_sheet", 0)
             failed_to_score == Get(stats.d, "failed_to_score", 0)
         IN  IF played = 0 THEN <<Float(0, 1), Str(<<"0", "/", "0">>)>>
             ELSE <<FloatMulInt(IntDiv(draws, played), 100),
                    FloatMulInt(IntDiv(clean_sheets + failed_to_score, played), 100)>>

_calculate_real_stats(stats) ==
    IF ~Truthy(stats) THEN <<Float(0, 1), Str(<<"N", "/", "A">>)>>
    ELSE LET played == Get(stats.d, "played", 0)
             draws == Get(stats.d, "draws", 0)
             clean_sheets == Get(stats.d, "clean_sheet", 0)
             failed_to_score == Get(stats.d, "failed_to_score", 0)
         IN  IF played = 0 THEN <<Float(0, 1), Str(<<"0", "/", "0">>)>>
             ELSE <<FloatMulInt(IntDiv(draws, played), 100),
                    FloatMulInt(FloatDivInt(IntDiv(clean_sheets + failed_to_score, 2), played), 100)>>

----------------------------------------------------------------------------
(* The data source: what one _get_api_data call can return                 *)

\* _get_api_data returns None (transport failure, non-2xx status, a non-empty
\* "errors" field) or the payload's "response" value.
Statuses == {"NS", "TBD", "FT"}

Team(id) == [id |-> id, name |-> id]

\* The k-th fixture of a league's list for today.
Fixture(k, status) ==
    [id |-> k, status |-> status, home |-> Team(2 * k - 1), away |-> Team(2 * k)]

FixtureLists ==
    UNION {{[k \in 1..n |-> Fixture(k, st[k])] : st \in [1..n -> Statuses]} : n \in 0..MaxFixtures}

FixturesAnswers == {None} \cup {List(fl) : fl \in FixtureLists}

\* A JSON goal count: null or a number.
GoalVals == {None, Num(0), Num(1)}
\* The "goals" object of a match; either key may be missing.
GoalDicts == UNION {[D -> GoalVals] : D \in SUBSET {"home", "away"}}

\* A finished match as the data source reports it.  Its teams and date, which
\* lines 164-165 only copy into the message, are left out.
LastMatches == {[t |-> "match", goals |-> g] : g \in GoalDicts}

LastAnswers == {None, List(<<>>)} \cup {List(<<m>>) : m \in LastMatches}

EmptyDict == [k \in {} |-> 0]
StatsOf(played, draws, cs, fts) ==
    Dict([k \in StatKeys |->
            CASE k = "played" -> played
              [] k = "draws" -> draws
              [] k = "clean_sheet" -> cs
              [] OTHER -> fts])

StatsAnswers == {None, List(<<>>), Dict(EmptyDict), StatsOf(0, 0, 0, 0), StatsOf(10, 3, 2, 1)}

----------------------------------------------------------------------------
(* Analyzer.run_daily_analysis, one step per data-source query             *)

\* _get_last_fixture: fixtures[0] if fixtures else None
FirstOrNone(ans) == IF Truthy(ans) THEN ans.items[1] ELSE None

\* (mutant) the status filter dropped
EligibleAny(fixture) == TRUE

\* line 135: only fixtures that have not started are checked
Eligible(fixture) == fixture.status \in {"NS", "TBD"}

\* x == 0 for a JSON value x
PyEqZero(x) == x.t = "int" /\ x.v = 0

\* (mutant) truthiness instead of == 0: a null count passes for zero
IsZeroZeroFalsy(goals) ==
    /\ ~Truthy(Get(goals, "home", None)) \/ PyEqZero(Get(goals, "home", None))
    /\ ~Truthy(Get(goals, "away", None)) \/ PyEqZero(Get(goals, "away", None))

\* line 157: goals.get('home') == 0 and goals.get('away') == 0
IsZeroZero(goals) == PyEqZero(Get(goals, "home", None)) /\ PyEqZero(Get(goals, "away", None))

\* f"{v:.1f}" raises ValueError unless v is a number.
FormatRaises(v) == v.t # "float"

\* f"{v:.1f}" of a float, as a number of tenths (round half to even).  The
\* value is the exact rational; the binary rounding of a tie is not modelled.
RoundTenths(x) ==
    LET q == (10 * x.n) \div x.d
        r == (10 * x.n) % x.d
    IN  IF 2 * r > x.d THEN q + 1
        ELSE IF 2 * r < x.d THEN q
        ELSE IF q % 2 = 0 THEN q ELSE q + 1

\* The first index >= from of an eligible fixture, 0 when there is none.
NextEligible(fixtures, from) ==
    LET S == {k \in from..Len(fixtures) : Eligible(fixtures[k])}
    IN  IF S = {} THEN 0 ELSE CHOOSE k \in S : \A j \in S : k <= j

\* What the data says, for the record kept of each team check: the match has a
\* final score and it is the number 0 on both sides.
ScoreWasNilNil(match) ==
    /\ DOMAIN match.goals = {"home", "away"}
    /\ match.goals["home"] = Num(0)
    /\ match.goals["away"] = Num(0)

\* Record of the latest team check of a run: zz, its last match was 0-0;
\* statsq, a statistics query was issued; alert, a message was handed to the
\* notifier; fin, the check is over.
NoObs == [zz |-> FALSE, statsq |-> FALSE, alert |-> FALSE, fin |-> FALSE]

\* Locals of a fresh invocation (lines 113-120), before the first league.
\* matches_found is only logged and is left out.  Kept for the record: flagged,
\* the teams whose last match was 0-0; seen, the statuses of the fixtures the
\* data source returned; lastq and statsq, the statuses of the fixtures a
\* last-fixture or statistics query was issued for.
NewRun(origin) ==
    [origin |-> origin, pc |-> "fetch_fixtures", li |-> 1, fixtures |-> <<>>, fi |-> 0,
     side |-> 1, last_match |-> None,
     flagged |-> <<>>, seen |-> {}, lastq |-> {}, statsq |-> {}, obs |-> NoObs]

\* `for league_id in self.leagues`: the next league, or the end of the run.
NextLeague(run) ==
    [run EXCEPT !.li = @ + 1, !.fixtures = <<>>, !.fi = 0, !.side = 1, !.last_match = None,
                !.pc = IF run.li + 1 > Len(analyzer.leagues) THEN "done" ELSE "fetch_fixtures"]

\* From fixture index `from` on: the next fixture to check, else the next league.
GotoFixture(run, from) ==
    LET k == NextEligible(run.fixtures, from)
    IN  IF k = 0 THEN NextLeague(run)
        ELSE [run EXCEPT !.fi = k, !.side = 1, !.last_match = None, !.pc = "fetch_last"]

\* `for team_obj, side in check_list`: the other side, else the next fixture.
NextTeam(run) ==
    IF run.side = 1
    THEN [run EXCEPT !.side = 2, !.last_match = None, !.pc = "fetch_last"]
    ELSE GotoFixture(run, run.fi + 1)

CurLeague(run) == analyzer.leagues[run.li]
CurFixture(run) == run.fixtures[run.fi]
CurTeam(run) == IF run.side = 1 THEN CurFixture(run).home ELSE CurFixture(run).away
SideName(run) == IF run.side = 1 THEN "Casa" ELSE "Fora"
TeamKey(run) ==
    [league |-> CurLeague(run), fixture |-> CurFixture(run).id,
     team |-> CurTeam(run).name, side |-> SideName(run)]

\* An empty league list: the for loop body never runs.
StartedRun(origin) ==
    IF Len(analyzer.leagues) = 0 THEN [NewRun(origin) EXCEPT !.pc = "done"] ELSE NewRun(origin)

\* lines 122-131: today's fixtures of the current league
FetchFixtures(i, ans) ==
    /\ i \in DOMAIN runs
    /\ runs[i].pc = "fetch_fixtures"
    /\ queries' = queries + 1
    /\ runs' = [runs EXCEPT ![i] =
                  IF ~Truthy(ans) THEN NextLeague(@)
                  ELSE GotoFixture([@ EXCEPT !.fixtures = ans.items,
                                             !.seen = @ \cup {ans.items[k].status : k \in 1..Len(ans.items)}], 1)]
    /\ UNCHANGED <<env, analyzer, svc, posts, outbox, team_stats, result, now, sched>>

\* lines 145-157: the team's last finished match and the 0-0 test
FetchLast(i, ans) ==
    /\ i \in DOMAIN runs
    /\ runs[i].pc = "fetch_last"
    /\ queries' = queries + 1
    /\ LET run == runs[i]
           last_match == FirstOrNone(ans)
           seen == [run EXCEPT !.lastq = @ \cup {CurFixture(run).status}]
       IN  runs' = [runs EXCEPT ![i] =
             IF ~Truthy(last_match)
             THEN [NextTeam(seen) EXCEPT !.obs = [NoObs EXCEPT !.fin = TRUE]]
             ELSE LET noted == [seen EXCEPT
                                  !.flagged = IF ScoreWasNilNil(last_match)
                                              THEN Append(@, TeamKey(run)) ELSE @,
                                  !.obs = [NoObs EXCEPT !.zz = ScoreWasNilNil(last_match)]]
                  IN  IF IsZeroZero(last_match.goals)
                      THEN [noted EXCEPT !.last_match = last_match, !.pc = "fetch_stats"]
                      ELSE [NextTeam(noted) EXCEPT !.obs.fin = TRUE]]
    /\ UNCHANGED <<env, analyzer, svc, posts, outbox, team_stats, result, now, sched>>

\* _send_telegram_message posts only with both a token and a chat id.
TelegramConfigured(a) == Truthy(a.telegram_token) /\ Truthy(a.telegram_chat_id)

\* lines 160-181: statistics, estimate, message, delivery.  Formatting the
\* message raises ValueError when an estimate is not a number; the exception
\* leaves run_daily_analysis.  A failed requests.post is caught and logged
\* inside _send_telegram_message and changes nothing here.
FetchStats(i, ans) ==
    /\ i \in DOMAIN runs
    /\ runs[i].pc = "fetch_stats"
    /\ queries' = queries + 1
    /\ LET run == [runs[i] EXCEPT !.statsq = @ \cup {CurFixture(runs[i]).status},
                                  !.obs.statsq = TRUE]
           est == _calculate_real_stats(ans)
           msg == [run |-> i, key |-> TeamKey(run), status |-> CurFixture(run).status,
                   draw |-> RoundTenths(est[1]), trend |-> RoundTenths(est[2]),
                   via |-> IF TelegramConfigured(analyzer) THEN "telegram" ELSE "console"]
       IN  IF FormatRaises(est[1]) \/ FormatRaises(est[2])
           THEN /\ runs' = [runs EXCEPT ![i] = [run EXCEPT !.pc = "raised", !.obs.fin = TRUE]]
                /\ UNCHANGED <<posts, outbox>>
           ELSE /\ runs' = [runs EXCEPT ![i] =
                              [NextTeam(run) EXCEPT !.obs.alert = TRUE, !.obs.fin = TRUE]]
                /\ outbox' = Append(outbox, msg)
                /\ posts' = IF TelegramConfigured(analyzer) THEN posts + 1 ELSE posts
    /\ UNCHANGED <<env, analyzer, svc, team_stats, result, now, sched>>

----------------------------------------------------------------------------
(* python analyzer.py: bot = Analyzer(); bot.run_daily_analysis()          *)

NotBuilt == [t |-> "unset"]
NoSched == [pc |-> "off"]

Creds(c) == {None, Str(<<c>>)}

\* LEAGUE_IDS values the script is run with.
ScriptLeagueIds == {Str(<<"1">>), Str(<<"2", ",", "1">>), Str(<<"a">>)}

ScriptEnvs ==
    [API_SPORTS_KEY : {Str(<<"k">>)}, TELEGRAM_BOT_TOKEN : Creds("t"),
     TELEGRAM_CHAT_ID : Creds("c"), LEAGUE_IDS : ScriptLeagueIds]

Init ==
    /\ env \in ScriptEnvs
    /\ analyzer = NotBuilt
    /\ svc = [pc |-> "script"]
    /\ runs = <<>>
    /\ queries = 0
    /\ posts = 0
    /\ outbox = <<>>
    /\ team_stats = None
    /\ result = None
    /\ now = 0
    /\ sched = NoSched

\* line 186
Construct ==
    /\ svc.pc = "script"
    /\ analyzer = NotBuilt
    /\ analyzer' = NewAnalyzer(env)
    /\ UNCHANGED <<env, svc, runs, queries, posts, outbox, team_stats, result, now, sched>>

\* line 187
ScriptRun ==
    /\ svc.pc = "script"
    /\ analyzer # NotBuilt
    /\ runs = <<>>
    /\ runs' = <<StartedRun("main")>>
    /\ UNCHANGED <<env, analyzer, svc, queries, posts, outbox, team_stats, result, now, sched>>

Next ==
    \/ Construct
    \/ ScriptRun
    \/ \E i \in DOMAIN runs :
         \/ \E ans \in FixturesAnswers : FetchFixtures(i, ans)
         \/ \E ans \in LastAnswers : FetchLast(i, ans)
         \/ \E ans \in StatsAnswers : FetchStats(i, ans)

Spec == Init /\ [][Next]_vars

----------------------------------------------------------------------------
(* Harness of Analyzer.__init__: every LEAGUE_IDS value up to MaxEnvLen    *)

RECURSIVE StringsUpTo(_)
StringsUpTo(n) ==
    IF n = 0 THEN {<<>>}
    ELSE LET shorter == StringsUpTo(n - 1)
         IN  shorter \cup {Append(w, c) : w \in {x \in shorter : Len(x) = n - 1}, c \in EnvChars}

LeagueIdsValues == {None} \cup {Str(w) : w \in StringsUpTo(MaxEnvLen)}

InitConfig ==
    /\ env \in [API_SPORTS_KEY : {Str(<<"k">>)}, TELEGRAM_BOT_TOKEN : {None},
                TELEGRAM_CHAT_ID : {None}, LEAGUE_IDS : LeagueIdsValues]
    /\ analyzer = NotBuilt
    /\ svc = [pc |-> "script"]
    /\ runs = <<>>
    /\ queries = 0
    /\ posts = 0
    /\ outbox = <<>>
    /\ team_stats = None
    /\ result = None
    /\ now = 0
    /\ sched = NoSched

NextConfig == Construct

SpecConfig == InitConfig /\ [][NextConfig]_vars

----------------------------------------------------------------------------
(* Harness of Analyzer._calculate_real_stats: every payload up to MaxCount *)

StatsInputs ==
    {None, List(<<>>)} \cup UNION {{Dict(f) : f \in [D -> 0..MaxCount]} : D \in SUBSET StatKeys}

InitStats ==
    /\ team_stats \in StatsInputs
    /\ result = None
    /\ env = [API_SPORTS_KEY |-> None, TELEGRAM_BOT_TOKEN |-> None,
              TELEGRAM_CHAT_ID |-> None, LEAGUE_IDS |-> None]
    /\ analyzer = NotBuilt
    /\ svc = [pc |-> "estimator"]
    /\ runs = <<>>
    /\ queries = 0
    /\ posts = 0
    /\ outbox = <<>>
    /\ now = 0
    /\ sched = NoSched

Estimate ==
    /\ svc.pc = "estimator"
    /\ result = None
    /\ result' = Tuple(_calculate_real_stats(team_stats))
    /\ UNCHANGED <<env, analyzer, svc, runs, queries, posts, outbox, team_stats, now, sched>>

NextStats == Estimate

SpecStats == InitStats /\ [][NextStats]_vars


----------------------------------------------------------------------------
(* main.py daily_scheduler, on a clock counted in minutes                  *)

DayMinutes == 1440      \* timedelta(days=1)
NineAM == 540           \* now.replace(hour=9, minute=0, ...)
StartupDelay == 1       \* asyncio.sleep(60) before the loop
ErrorPause == 1         \* asyncio.sleep(60) in the except branch

\* (mutant) `now > target` in place of `now >= target`
NextTargetStrict(t) ==
    LET today == (t \div DayMinutes) * DayMinutes + NineAM
    IN  IF t > today THEN today + DayMinutes ELSE today

\* lines 49-53: today's 09:00, or tomorrow's when it is not in the future
NextTarget(t) ==
    LET today == (t \div DayMinutes) * DayMinutes + NineAM
    IN  IF t >= today THEN today + DayMinutes ELSE today

\* lines 49-58: one pass of the loop head, up to the sleep
Plan(s, t) == [s EXCEPT !.pc = "sleeping", !.target = NextTarget(t), !.wait = NextTarget(t) - t]

\* (mutant) no except branch: the exception ends the scheduler task
UncaughtRunError(s) == [s EXCEPT !.pc = "dead"]

\* lines 62-64: the exception is logged and the loop goes on after a pause
CaughtRunError(s) == [s EXCEPT !.pc = "backoff"]

\* How long one awaited run_analysis_async takes, in minutes.
RunMinutes == {0, 1, 30, DayMinutes - 2, DayMinutes - 1, DayMinutes, DayMinutes + 1}

\* triggers: when each scheduled run started; ends: when it returned or
\* raised; resumes: when the loop head ran next (after the pause, if any);
\* raised: whether it raised.
InitSched ==
    /\ now \in 0..(DayMinutes - 1)
    /\ sched = [pc |-> "boot", target |-> 0, wait |-> 0,
                triggers |-> <<>>, ends |-> <<>>, resumes |-> <<>>, raised |-> <<>>]
    /\ env = [API_SPORTS_KEY |-> None, TELEGRAM_BOT_TOKEN |-> None,
              TELEGRAM_CHAT_ID |-> None, LEAGUE_IDS |-> None]
    /\ analyzer = NotBuilt
    /\ svc = [pc |-> "scheduler"]
    /\ runs = <<>>
    /\ queries = 0
    /\ posts = 0
    /\ outbox = <<>>
    /\ team_stats = None
    /\ result = None

\* lines 45-58: the initial sleep ends and the loop is entered
Activate ==
    /\ sched.pc = "boot"
    /\ now' = now + StartupDelay
    /\ sched' = Plan(sched, now')
    /\ UNCHANGED <<env, analyzer, svc, runs, queries, posts, outbox, team_stats, result>>

\* lines 58-61: the sleep ends at the target and the run is awaited
Wake ==
    /\ sched.pc = "sleeping"
    /\ sched.target \div DayMinutes <= MaxDays
    /\ now' = now + sched.wait
    /\ sched' = [sched EXCEPT !.pc = "running", !.triggers = Append(@, now')]
    /\ UNCHANGED <<env, analyzer, svc, runs, queries, posts, outbox, team_stats, result>>

\* line 61 returns; back to the loop head
RunReturns(dur) ==
    /\ sched.pc = "running"
    /\ now' = now + dur
    /\ sched' = Plan([sched EXCEPT !.ends = Append(@, now'), !.resumes = Append(@, now'),
                                   !.raised = Append(@, FALSE)], now')
    /\ UNCHANGED <<env, analyzer, svc, runs, queries, posts, outbox, team_stats, result>>

\* line 61 raises; lines 62-63
RunRaises(dur) ==
    /\ sched.pc = "running"
    /\ now' = now + dur
    /\ sched' = CaughtRunError([sched EXCEPT !.ends = Append(@, now'), !.raised = Append(@, TRUE)])
    /\ UNCHANGED <<env, analyzer, svc, runs, queries, posts, outbox, team_stats, result>>

\* line 64: the pause ends; back to the loop head
PauseEnds ==
    /\ sched.pc = "backoff"
    /\ now' = now + ErrorPause
    /\ sched' = Plan([sched EXCEPT !.resumes = Append(@, now')], now')
    /\ UNCHANGED <<env, analyzer, svc, runs, queries, posts, outbox, team_stats, result>>

NextSched ==
    \/ Activate
    \/ Wake
    \/ \E dur \in RunMinutes : RunReturns(dur)
    \/ \E dur \in RunMinutes : RunRaises(dur)
    \/ PauseEnds

SpecSched == InitSched /\ [][NextSched]_vars


----------------------------------------------------------------------------
(* main.py: module load, startup event, GET /run, the scheduler's trigger  *)

\* No statement of Analyzer.__init__ raises on a missing variable.
AnalyzerInitRaises(e) == FALSE

\* lines 28-32: analyzer = Analyzer(), or None when the constructor raises
LoadAnalyzer(e) == IF AnalyzerInitRaises(e) THEN None ELSE NewAnalyzer(e)

InProgress(run) == run.pc \notin {"done", "raised"}

\* (mutant) a single-flight guard around the invocation
CanStartSingleFlight == Truthy(analyzer) /\ \A i \in DOMAIN runs : ~InProgress(runs[i])

\* line 35: run_analysis_async runs the pipeline whenever `analyzer` is set
CanStart == Truthy(analyzer)

\* lines 34-41, up to the start of the thread
run_analysis_async(origin) ==
    runs' = IF CanStart THEN Append(runs, StartedRun(origin)) ELSE runs

ServiceEnvs ==
    [API_SPORTS_KEY : Creds("k"), TELEGRAM_BOT_TOKEN : {Str(<<"t">>)},
     TELEGRAM_CHAT_ID : {Str(<<"c">>)}, LEAGUE_IDS : {Str(<<"1">>)}]

\* startup: state of the task created at line 75; manual: /run background
\* tasks not yet begun; daily: "off", "sleeping" or "awaiting" (line 61);
\* calls: run_analysis_async calls made so far.
InitSvc ==
    /\ env \in ServiceEnvs
    /\ analyzer = NotBuilt
    /\ svc = [pc |-> "import", startup |-> "none", manual |-> 0, daily |-> "off", calls |-> 0]
    /\ runs = <<>>
    /\ queries = 0
    /\ posts = 0
    /\ outbox = <<>>
    /\ team_stats = None
    /\ result = None
    /\ now = 0
    /\ sched = NoSched

\* lines 25-32
Import ==
    /\ svc.pc = "import"
    /\ analyzer' = LoadAnalyzer(env)
    /\ svc' = [svc EXCEPT !.pc = "loaded"]
    /\ UNCHANGED <<env, runs, queries, posts, outbox, team_stats, result, now, sched>>

\* lines 69-75: both tasks are created and the service starts serving
OnStartup ==
    /\ svc.pc = "loaded"
    /\ svc' = [svc EXCEPT !.pc = "ready", !.startup = "created", !.daily = "sleeping"]
    /\ UNCHANGED <<env, analyzer, runs, queries, posts, outbox, team_stats, result, now, sched>>

\* the task of line 75 runs
StartupRun ==
    /\ svc.startup = "created"
    /\ svc.calls < MaxRuns
    /\ run_analysis_async("startup")
    /\ svc' = [svc EXCEPT !.startup = "ran", !.calls = @ + 1]
    /\ UNCHANGED <<env, analyzer, queries, posts, outbox, team_stats, result, now, sched>>

\* lines 77-80: the handler queues the background task and answers success
ManualRequest ==
    /\ svc.pc = "ready"
    /\ svc.calls + svc.manual < MaxRuns
    /\ svc' = [svc EXCEPT !.manual = @ + 1]
    /\ UNCHANGED <<env, analyzer, runs, queries, posts, outbox, team_stats, result, now, sched>>

\* the background task of line 79 runs
ManualRun ==
    /\ svc.manual > 0
    /\ run_analysis_async("manual")
    /\ svc' = [svc EXCEPT !.manual = @ - 1, !.calls = @ + 1]
    /\ UNCHANGED <<env, analyzer, queries, posts, outbox, team_stats, result, now, sched>>

\* lines 58-61: the scheduler's sleep ends and it awaits run_analysis_async
DailyRun ==
    /\ svc.daily = "sleeping"
    /\ svc.calls + svc.manual < MaxRuns
    /\ run_analysis_async("scheduler")
    /\ svc' = [svc EXCEPT !.daily = IF CanStart THEN "awaiting" ELSE "sleeping", !.calls = @ + 1]
    /\ UNCHANGED <<env, analyzer, queries, posts, outbox, team_stats, result, now, sched>>

\* lines 60-64: the awaited run returned or raised; the loop goes on
DailyResume ==
    /\ svc.daily = "awaiting"
    /\ \A i \in DOMAIN runs : runs[i].origin = "scheduler" => ~InProgress(runs[i])
    /\ svc' = [svc EXCEPT !.daily = "sleeping"]
    /\ UNCHANGED <<env, analyzer, runs, queries, posts, outbox, team_stats, result, now, sched>>

NilNil == [t |-> "match", goals |-> [k \in {"home", "away"} |-> Num(0)]]

\* What the data source answers while the service is followed.
SvcFixturesAnswers == {None, List(<<Fixture(1, "NS")>>)}
SvcLastAnswers == {List(<<NilNil>>)}
SvcStatsAnswers == {StatsOf(10, 3, 2, 1)}

NextSvc ==
    \/ Import
    \/ OnStartup
    \/ StartupRun
    \/ ManualRequest
    \/ ManualRun
    \/ DailyRun
    \/ DailyResume
    \/ \E i \in DOMAIN runs :
         \/ \E ans \in SvcFixturesAnswers : FetchFixtures(i, ans)
         \/ \E ans \in SvcLastAnswers : FetchLast(i, ans)
         \/ \E ans \in SvcStatsAnswers : FetchStats(i, ans)

SpecSvc == InitSvc /\ [][NextSvc]_vars

----------------------------------------------------------------------------
(* Claims about the pipeline (Spec)                                        *)

MsgsOf(i) == SelectSeq(outbox, LAMBDA m : m.run = i)
Telegrams == SelectSeq(outbox, LAMBDA m : m.via = "telegram")

\* C1: no step of run_daily_analysis is fatal: whatever the data source
\* answers, no invocation ends by raising an exception.
C1_NoStepFatal == \A i \in DOMAIN runs : runs[i].pc # "raised"

\* C5: in every run that completes, the messages handed to the notifier are
\* exactly the flagged (fixture, side) pairs, one each, in order and naming the
\* flagged team; none when no team was flagged.  A Telegram POST is made for
\* each message when token and chat id are configured, and for none otherwise.
C5_OneDeliveryPerFlaggedTeam ==
    /\ \A i \in DOMAIN runs :
         runs[i].pc = "done" =>
           /\ Len(MsgsOf(i)) = Len(runs[i].flagged)
           /\ \A k \in 1..Len(runs[i].flagged) : MsgsOf(i)[k].key = runs[i].flagged[k]
           /\ (runs[i].flagged = <<>> => MsgsOf(i) = <<>>)
    /\ posts = Len(Telegrams)
    /\ analyzer # NotBuilt =>
         (IF Truthy(analyzer.telegram_token) /\ Truthy(analyzer.telegram_chat_id)
          THEN Len(Telegrams) = Len(outbox) ELSE Len(Telegrams) = 0)

C5_Witness ==
    \E i \in DOMAIN runs :
        /\ runs[i].pc = "done"
        /\ Len(runs[i].flagged) >= 2
        /\ Len(MsgsOf(i)) = Len(runs[i].flagged)
        /\ posts = Len(outbox)

\* C6: a team is flagged (statistics fetched and an alert produced) exactly
\* when its last match ended 0-0; any other team gets neither a statistics
\* query nor an alert.
C6_FlaggedIffZeroZero ==
    \A i \in DOMAIN runs :
        runs[i].obs.fin =>
          /\ runs[i].obs.zz => (runs[i].obs.statsq /\ runs[i].obs.alert)
          /\ ~runs[i].obs.zz => (~runs[i].obs.statsq /\ ~runs[i].obs.alert)

\* The part of C6 the code keeps: the statistics query is issued exactly for
\* the teams whose last match ended 0-0, and only those can get an alert.
C6_QueryIffZeroZero ==
    \A i \in DOMAIN runs :
        /\ runs[i].obs.fin => (runs[i].obs.statsq <=> runs[i].obs.zz)
        /\ runs[i].obs.alert => runs[i].obs.zz

\* C7: for a fixture whose status is neither NS nor TBD the run issues no
\* last-fixture query, no statistics query and no alert.
C7_OnlyNotStartedFixturesChecked ==
    /\ \A i \in DOMAIN runs : runs[i].lastq \cup runs[i].statsq \subseteq {"NS", "TBD"}
    /\ \A k \in 1..Len(outbox) : outbox[k].status \in {"NS", "TBD"}

C7_Witness ==
    \E i \in DOMAIN runs :
        /\ runs[i].pc = "done"
        /\ "FT" \in runs[i].seen
        /\ runs[i].lastq # {}
        /\ runs[i].statsq # {}
        /\ outbox # <<>>

----------------------------------------------------------------------------
(* Claims about the configuration (SpecConfig)                             *)

\* A LEAGUE_IDS value is valid when it is a comma-separated list of integers.
ValidLeagueIds(v) ==
    /\ v # None
    /\ v.s # <<>>
    /\ \A k \in 1..Len(Split(v.s, ",")) :
         LET tok == Strip(Split(v.s, ",")[k])
         IN  Len(tok) > 0 /\ \A j \in 1..Len(tok) : tok[j] \in DecimalChars

\* C3: whenever LEAGUE_IDS is absent or invalid, the league list is the
\* built-in default TOP_20_LEAGUES.
C3_InvalidLeagueIdsGiveDefault ==
    (analyzer # NotBuilt /\ ~ValidLeagueIds(env.LEAGUE_IDS)) => analyzer.leagues = TOP_20_LEAGUES

----------------------------------------------------------------------------
(* Claims about the estimator (SpecStats)                                  *)

Played(stats) == IF Truthy(stats) THEN Get(stats.d, "played", 0) ELSE 0
Zero == Float(0, 1)

\* C4: for statistics that are absent or have played == 0 the estimator
\* returns (0.0, 0.0).
C4_NoDataGivesZeroPair ==
    (result # None /\ Played(team_stats) = 0) => result.items = <<Zero, Zero>>

\* C9: for statistics with played > 0, drawRate = draws/played*100 and
\* trend = ((cleanSheets + failedToScore)/2)/played*100, with trend in
\* [0, 100] whenever cleanSheets + failedToScore <= 2*played.
C9_EmpiricalRates ==
    (result # None /\ Played(team_stats) > 0) =>
        LET played == Played(team_stats)
            draws == Get(team_stats.d, "draws", 0)
            both == Get(team_stats.d, "clean_sheet", 0) + Get(team_stats.d, "failed_to_score", 0)
            rate == result.items[1]
            trend == result.items[2]
        IN  /\ rate.t = "float" /\ rate.d > 0
            /\ rate.n * played = 100 * draws * rate.d
            /\ trend.t = "float" /\ trend.d > 0
            /\ trend.n * 2 * played = 100 * both * trend.d
            /\ both <= 2 * played => (0 <= trend.n /\ trend.n <= 100 * trend.d)

C9_Witness ==
    /\ team_stats = StatsOf(10, 3, 2, 1)
    /\ result # None
    /\ result.items = <<Float(30, 1), Float(15, 1)>>

----------------------------------------------------------------------------
(* Claims about the scheduler (SpecSched)                                  *)

Planned == sched.pc = "sleeping"
LastOf(q) == q[Len(q)]

\* Every computed wait targets the next 09:00, strictly in the future.
WaitTargetsNextNine ==
    Planned => /\ 0 < sched.wait /\ sched.wait <= DayMinutes
               /\ sched.target = now + sched.wait
               /\ sched.target % DayMinutes = NineAM

\* Every scheduled run starts at 09:00 and no day has two of them.
OncePerDay ==
    /\ \A k \in 1..Len(sched.triggers) : sched.triggers[k] % DayMinutes = NineAM
    /\ \A k \in 1..(Len(sched.triggers) - 1) :
         sched.triggers[k + 1] \div DayMinutes > sched.triggers[k] \div DayMinutes

\* A run that raised leaves the scheduler in its loop.
RaiseKeepsLoop == sched.pc \in {"boot", "sleeping", "running", "backoff"}

\* C8 as stated: waits target the next 09:00 (0 < wait <= 24 h), one run per
\* day at 09:00, no day skipped given that the run finished before the next
\* 09:00, and a run that raises does not stop later triggers.
C8_OncePerDay_Original ==
    /\ WaitTargetsNextNine
    /\ OncePerDay
    /\ RaiseKeepsLoop
    /\ (Planned /\ sched.ends # <<>> /\ LastOf(sched.ends) < LastOf(sched.triggers) + DayMinutes)
         => sched.target = LastOf(sched.triggers) + DayMinutes

\* C8 as amended: the same, given that the run, and the 60 s pause that follows
\* a run that raised, are over before the next 09:00.
C8_OncePerDay ==
    /\ WaitTargetsNextNine
    /\ OncePerDay
    /\ RaiseKeepsLoop
    /\ (Planned /\ sched.resumes # <<>> /\ LastOf(sched.resumes) < LastOf(sched.triggers) + DayMinutes)
         => sched.target = LastOf(sched.triggers) + DayMinutes

C8_Witness ==
    /\ Len(sched.triggers) >= 3
    /\ sched.raised[1]
    /\ sched.triggers[2] = sched.triggers[1] + DayMinutes
    /\ sched.triggers[3] = sched.triggers[2] + DayMinutes

----------------------------------------------------------------------------
(* Claims about the service (SpecSvc)                                      *)

\* With API_SPORTS_KEY missing no run is started and no query is issued.
NoQueryWithoutKey == env.API_SPORTS_KEY = None => (runs = <<>> /\ queries = 0)

\* C2: with API_SPORTS_KEY missing the pipeline never starts: no trigger
\* executes run_daily_analysis or issues a query, and the service does not
\* enter its ready state.
C2_MissingKeyBlocksPipeline ==
    env.API_SPORTS_KEY = None => (runs = <<>> /\ queries = 0 /\ svc.pc # "ready")

\* C10: invocations are not mutually exclusive: every call of
\* run_analysis_async in the serving process starts a new invocation of
\* run_daily_analysis, whatever invocations are in progress, so two can be in
\* progress at once and deliver the same alert twice.
C10_NoSingleFlight == [][svc'.calls > svc.calls => Len(runs') = Len(runs) + 1]_vars

\* Two invocations in progress at once, and the same flagged team of the same
\* fixture delivered by both.
C10_Witness ==
    /\ \E i, j \in DOMAIN runs : i # j /\ InProgress(runs[i]) /\ InProgress(runs[j])
    /\ \E a, b \in 1..Len(outbox) :
         a # b /\ outbox[a].key = outbox[b].key /\ outbox[a].run # outbox[b].run

====
